---------------------------- MODULE Spec2Model ----------------------------
(***************************************************************************)
(* A model of jaxstronomy's input pipeline (input_pipeline.py) and of the  *)
(* training loop that drives it (train.py).                                *)
(*                                                                         *)
(* Floating point numbers are exact rationals n/d, with the IEEE values    *)
(* that are not finite kept: d = 0 and n = 1 is +inf, n = -1 is -inf and   *)
(* n = 0 is NaN.  Rounding is not modelled.                                *)
(* A PRNG key is the path of split indices that leads to it from the seed. *)
(***************************************************************************)
EXTENDS Integers, Sequences, FiniteSets, TLC

VARIABLES
    codec,               \* the Distribution Codec's last call (SpecCodec)
    input_config,        \* the input configuration of the run
    train_config,        \* the training configuration and the flags
    rng,                 \* train_and_evaluate's rng: a key or an iterator
    tpc,                 \* train_and_evaluate's position
    train_state,         \* the flax TrainState (its step counter)
    step,                \* the loop variable of the training loop
    cosmology_params,    \* the CosmologyParams structure
    rng_images,          \* the pre-split keys of the current batch
    scene,               \* one draw_image_and_truth call per batch element
    batch,               \* the (image, truth) batch given to the train step
    draw_log,            \* the draw_sample calls made so far
    run_log              \* what the run has done (calls, saved checkpoints)

vars == <<codec, input_config, train_config, rng, tpc, train_state, step, cosmology_params,
          rng_images, scene, batch, draw_log, run_log>>

---------------------------------------------------------------------------
(* Bounds of the model. *)

\* jax.random.uniform returns one of 0/UniformSteps .. (UniformSteps-1)/UniformSteps
UniformSteps == 4
\* jax.random.normal returns one of -NormalMax .. NormalMax
NormalMax == 6
\* the keys a codec call may be given are <<0>> .. <<NumCodecKeys - 1>>
NumCodecKeys == 13
\* config.num_train_steps
NumTrainSteps == 3
\* config.batch_size, the scenes of one batch on the one device of the model
BatchSize == 2
\* the largest value of the flag num_unique_batches
MaxUniqueBatches == 2

---------------------------------------------------------------------------
(* Floating point arithmetic (jnp scalars). *)

Abs(x) == IF x < 0 THEN -x ELSE x

Sign(x) == IF x < 0 THEN -1 ELSE IF x > 0 THEN 1 ELSE 0

RECURSIVE GCD(_, _)
GCD(a, b) == IF b = 0 THEN a ELSE GCD(b, a % b)

\* The float n/d; d = 0 gives inf, -inf or NaN by the sign of n.
Rat(n, d) ==
    IF d = 0 THEN [n |-> Sign(n), d |-> 0]
    ELSE LET g == GCD(Abs(n), Abs(d))
         IN  [n |-> (Sign(d) * n) \div g, d |-> Abs(d) \div g]

Zero == Rat(0, 1)
One == Rat(1, 1)
NaN == Rat(0, 0)

IsNaN(x) == x.d = 0 /\ x.n = 0
IsInf(x) == x.d = 0 /\ x.n # 0
IsFinite(x) == x.d # 0

RAdd(x, y) ==
    IF IsNaN(x) \/ IsNaN(y) THEN NaN
    ELSE IF IsInf(x) /\ IsInf(y) THEN (IF x.n = y.n THEN x ELSE NaN)
    ELSE IF IsInf(x) THEN x
    ELSE IF IsInf(y) THEN y
    ELSE Rat(x.n * y.d + y.n * x.d, x.d * y.d)

RNeg(x) == [n |-> -x.n, d |-> x.d]

RSub(x, y) == RAdd(x, RNeg(y))

RMul(x, y) ==
    IF IsNaN(x) \/ IsNaN(y) THEN NaN
    ELSE IF IsInf(x) \/ IsInf(y) THEN Rat(Sign(x.n) * Sign(y.n), 0)
    ELSE Rat(x.n * y.n, x.d * y.d)

RDiv(x, y) ==
    IF IsNaN(x) \/ IsNaN(y) THEN NaN
    ELSE IF IsInf(x) /\ IsInf(y) THEN NaN
    ELSE IF IsInf(x) THEN Rat(x.n * (IF y.n < 0 THEN -1 ELSE 1), 0)
    ELSE IF IsInf(y) THEN Zero
    ELSE IF y.n = 0 THEN Rat(Sign(x.n), 0)
    ELSE Rat(x.n * y.d, x.d * y.n)

\* Comparisons; every comparison with NaN is false.
RLeq(x, y) ==
    /\ ~IsNaN(x) /\ ~IsNaN(y)
    /\ IF IsInf(x) /\ IsInf(y) THEN x.n <= y.n
       ELSE IF IsInf(x) THEN x.n < 0
       ELSE IF IsInf(y) THEN y.n > 0
       ELSE x.n * y.d <= y.n * x.d

RLt(x, y) == RLeq(x, y) /\ x # y

RGt(x, y) == RLt(y, x)

\* Python's max(a, b) and min(a, b) on two scalars: the first argument unless the
\* second is strictly larger (smaller).
\* min(a, b) giving its first argument whatever the second.
PyMin_first(a, b) == a

PyMax(a, b) == IF RGt(b, a) THEN b ELSE a
PyMin(a, b) == IF RLt(b, a) THEN b ELSE a

\* jax.lax.select(pred, on_true, on_false); both operands are already computed.
Select(pred, on_true, on_false) == IF pred THEN on_true ELSE on_false

---------------------------------------------------------------------------
(* The PRNG: keys, jax.random.split, jax.random.uniform, jax.random.normal. *)

\* jax.random.split(key, num): the num children of key, a pure function of key.
split(key, num) == [i \in 1..num |-> Append(key, i - 1)]

RECURSIVE random_bits(_)
\* The bits a key stands for: a fixed function of the key.
random_bits(key) ==
    IF key = << >> THEN 7
    ELSE (random_bits(SubSeq(key, 1, Len(key) - 1)) * 31 + key[Len(key)] + 1) % 1009

\* jax.random.uniform(key): a float in [0, 1).
uniform(key) == Rat(random_bits(key) % UniformSteps, UniformSteps)

\* jax.random.normal(key): a float, here within NormalMax standard deviations.
normal(key) == Rat((random_bits(key) % (2 * NormalMax + 1)) - NormalMax, 1)

---------------------------------------------------------------------------
(* The Distribution Codec. *)

\* encoding[i] of the source, which counts from 0.
E(encoding, i) == encoding[i + 1]

encode_normal(mean, std) == <<Zero, Zero, Zero, One, mean, std, Zero>>

encode_uniform(minimum, maximum) == <<One, minimum, maximum, Zero, Zero, Zero, Zero>>

encode_constant(constant) == <<Zero, Zero, Zero, Zero, Zero, Zero, constant>>

\* The three terms decode_maximum adds up.
decode_maximum_terms(encoding) ==
    <<RMul(E(encoding, 0), E(encoding, 2)),
      RMul(E(encoding, 3),
           RAdd(E(encoding, 4), RMul(E(encoding, 5), Rat(5, 1)))),
      E(encoding, 6)>>

decode_maximum(encoding) ==
    LET t == decode_maximum_terms(encoding)
    IN  RAdd(RAdd(t[1], t[2]), t[3])

\* decode_minimum's terms with the five sigma added, as in decode_maximum.
decode_minimum_terms_plus(encoding) ==
    <<RMul(E(encoding, 0), E(encoding, 1)),
      RMul(E(encoding, 3),
           RAdd(E(encoding, 4), RMul(E(encoding, 5), Rat(5, 1)))),
      E(encoding, 6)>>

\* The three terms decode_minimum adds up.
decode_minimum_terms(encoding) ==
    <<RMul(E(encoding, 0), E(encoding, 1)),
      RMul(E(encoding, 3),
           RSub(E(encoding, 4), RMul(E(encoding, 5), Rat(5, 1)))),
      E(encoding, 6)>>

decode_minimum(encoding) ==
    LET t == decode_minimum_terms(encoding)
    IN  RAdd(RAdd(t[1], t[2]), t[3])

\* draw_from_encoding with the uniform draw scaled by the maximum, not by the
\* width of the range.
draw_from_encoding_scaled_by_maximum(encoding, key) ==
    LET uniform_part ==
            RMul(E(encoding, 0),
                 RAdd(RMul(uniform(key), E(encoding, 2)), E(encoding, 1)))
        normal_part ==
            RMul(E(encoding, 3),
                 RAdd(RMul(normal(key), E(encoding, 5)), E(encoding, 4)))
    IN  RAdd(RAdd(uniform_part, normal_part), E(encoding, 6))

draw_from_encoding(encoding, key) ==
    LET uniform_part ==
            RMul(E(encoding, 0),
                 RAdd(RMul(uniform(key), RSub(E(encoding, 2), E(encoding, 1))),
                      E(encoding, 1)))
        normal_part ==
            RMul(E(encoding, 3),
                 RAdd(RMul(normal(key), E(encoding, 5)), E(encoding, 4)))
    IN  RAdd(RAdd(uniform_part, normal_part), E(encoding, 6))

\* normalize_param with the flags multiplied in, as draw_from_encoding does,
\* instead of selected on.
normalize_param_masked(parameter, encoding) ==
    RAdd(RMul(E(encoding, 0),
              RDiv(RSub(parameter, E(encoding, 1)),
                   RSub(E(encoding, 2), E(encoding, 1)))),
         RMul(E(encoding, 3),
              RDiv(RSub(parameter, E(encoding, 4)), E(encoding, 5))))

normalize_param(parameter, encoding) ==
    RAdd(Select(RGt(E(encoding, 0), Zero),
                RDiv(RSub(parameter, E(encoding, 1)),
                     RSub(E(encoding, 2), E(encoding, 1))),
                Zero),
         Select(RGt(E(encoding, 3), Zero),
                RDiv(RSub(parameter, E(encoding, 4)), E(encoding, 5)),
                Zero))

---------------------------------------------------------------------------
(* The codec's functions called on their own (SpecCodec): an encoding is    *)
(* built by one of the three encoders, then decoded, drawn from and used to *)
(* normalize a parameter.                                                   *)

\* The floats the encoders and normalize_param are given.
CodecValues == {Rat(-1, 1), Zero, Rat(1, 5), Rat(1, 2), One, Rat(2, 1)}

CodecKeys == {<<k>> : k \in 0..(NumCodecKeys - 1)}

\* A call of an encoder: encode_uniform(a, b), encode_normal(a, b) or
\* encode_constant(a).
EncoderCalls ==
    [kind : {"uniform", "normal"}, a : CodecValues, b : CodecValues]
        \cup [kind : {"constant"}, a : CodecValues, b : {Zero}]

Encode(call) ==
    CASE call.kind = "uniform" -> encode_uniform(call.a, call.b)
      [] call.kind = "normal" -> encode_normal(call.a, call.b)
      [] call.kind = "constant" -> encode_constant(call.a)

CodecIdle ==
    [op |-> "idle", made |-> [kind |-> "constant", a |-> Zero, b |-> Zero],
     encoding |-> encode_constant(Zero),
     has_decode |-> FALSE, maximum |-> Zero, minimum |-> Zero,
     has_draw |-> FALSE, key |-> << >>, draw |-> Zero,
     has_normalized |-> FALSE, parameter |-> Zero, of_draw |-> FALSE,
     normalized |-> Zero]

CodecEncode(call) ==
    [CodecIdle EXCEPT !.op = "encode", !.made = call, !.encoding = Encode(call)]

\* The codec's state with the results of the earlier calls dropped.
CodecFresh == CodecEncode(codec.made)

\* A codec call reads and writes nothing of a training run.
run_vars == <<input_config, train_config, rng, tpc, train_state, step,
              cosmology_params, rng_images, scene, batch, draw_log, run_log>>

\* decode_maximum(encoding) and decode_minimum(encoding)
CodecDecode ==
    /\ codec.op # "idle"
    /\ codec' = [CodecFresh EXCEPT !.op = "decode", !.has_decode = TRUE,
                                   !.maximum = decode_maximum(codec.encoding),
                                   !.minimum = decode_minimum(codec.encoding)]
    /\ UNCHANGED run_vars

\* draw_from_encoding(encoding, key)
CodecDraw ==
    /\ codec.op # "idle"
    /\ \E key \in CodecKeys :
          codec' = [CodecFresh EXCEPT
                       !.op = "draw", !.has_draw = TRUE, !.key = key,
                       !.draw = draw_from_encoding(codec.encoding, key)]
    /\ UNCHANGED run_vars

\* normalize_param(parameter, encoding), of any float or of the last draw
CodecNormalize ==
    /\ codec.op # "idle"
    /\ \E of_draw \in (IF codec.has_draw THEN BOOLEAN ELSE {FALSE}) :
       \E parameter \in (IF of_draw THEN {codec.draw} ELSE CodecValues) :
          codec' = [(IF of_draw THEN codec ELSE CodecFresh) EXCEPT
                       !.op = "normalize", !.has_normalized = TRUE,
                       !.parameter = parameter, !.of_draw = of_draw,
                       !.normalized = normalize_param(parameter, codec.encoding)]
    /\ UNCHANGED run_vars

---------------------------------------------------------------------------
(* Configuration trees and the Nested-Structure Sampler. *)

\* Every field name of the model's configurations, in the order in which jax
\* flattens a dict: sorted by key.
FieldOrder ==
    <<"amp", "delta_los", "dz", "hubble_constant", "m_max", "m_min",
      "omega_m_zero", "sigma_sub", "theta_E", "z_lens", "z_source">>

\* jax.tree_util.tree_structure(tree): the leaves' names, in flattening order.
tree_leaves(tree) == SelectSeq(FieldOrder, LAMBDA f : f \in DOMAIN tree)

\* The place of leaf f among the leaves of tree, counted from 1.
LeafIndex(tree, f) ==
    CHOOSE i \in 1..Len(tree_leaves(tree)) : tree_leaves(tree)[i] = f

\* leaf_keys without the split: every leaf is drawn with the key of the call.
leaf_keys_unsplit(tree, key) == [f \in DOMAIN tree |-> key]

\* rng_tree of draw_sample: the key each leaf is drawn with.
leaf_keys(tree, key) ==
    LET rng_keys == split(key, Len(tree_leaves(tree)))
    IN  [f \in DOMAIN tree |-> rng_keys[LeafIndex(tree, f)]]

\* draw_sample reading a global counter, the number of draw_sample calls made
\* so far, as a stateful generator would.
draw_sample_counting(encoded_configuration, key) ==
    LET rng_tree == leaf_keys(encoded_configuration,
                              Append(key, Cardinality(draw_log)))
    IN  [f \in DOMAIN encoded_configuration |->
            draw_from_encoding(encoded_configuration[f], rng_tree[f])]

draw_sample(encoded_configuration, key) ==
    LET rng_tree == leaf_keys(encoded_configuration, key)
    IN  [f \in DOMAIN encoded_configuration |->
            draw_from_encoding(encoded_configuration[f], rng_tree[f])]

\* model_keys without the split: every model is drawn with the key of the call.
model_keys_shared(key, n_models) == [i \in 1..n_models |-> key]

\* rng_list of extract_multiple_models: the key of each model's draw_sample.
model_keys(key, n_models) == split(key, n_models)

extract_multiple_models(encoded_configuration, key, n_models) ==
    LET rng_list == model_keys(key, n_models)
        draws == [i \in 1..n_models |->
                     draw_sample(encoded_configuration, rng_list[i])]
    IN  [f \in DOMAIN encoded_configuration \cup {"model_index"} |->
            IF f = "model_index" THEN [i \in 1..n_models |-> i - 1]
            ELSE [i \in 1..n_models |-> draws[i][f]]]

\* tree_map(lambda x: x[index], params): the entry of one model.
select_model(params, index) == [f \in DOMAIN params |-> params[f][index + 1]]

\* truth_targets in the reverse of the order given.
truth_targets_reversed(truth_parameters) ==
    LET n == Len(truth_parameters[1])
    IN  [i \in 1..n |->
            <<truth_parameters[1][n + 1 - i], truth_parameters[2][n + 1 - i]>>]

\* The objects and keys of truth_parameters, paired in the order tree_map visits
\* the two lists.
truth_targets(truth_parameters) ==
    [i \in 1..Len(truth_parameters[1]) |->
        <<truth_parameters[1][i], truth_parameters[2][i]>>]

extract_truth_values(all_params, lensing_config, truth_parameters) ==
    LET targets == truth_targets(truth_parameters)
    IN  [i \in 1..Len(targets) |->
            normalize_param(all_params[targets[i][1]][targets[i][2]],
                            lensing_config[targets[i][1]][targets[i][2]])]

---------------------------------------------------------------------------
(* The keys each sampling call hands to jax.random: one event per use of a  *)
(* key, by "split", "uniform", "normal", "draw_los" or "draw_subhalos", at  *)
(* the call site <<tree, model, field>>.                                    *)

KeyUse(key, by, tree, model, field) ==
    [key |-> key, by |-> by, site |-> <<tree, model, field>>]

\* draw_from_encoding gives its key to jax.random.uniform and jax.random.normal.
draw_from_encoding_uses(key, tree, model, field) ==
    {KeyUse(key, "uniform", tree, model, field),
     KeyUse(key, "normal", tree, model, field)}

draw_sample_uses(encoded_configuration, key, tree, model) ==
    {KeyUse(key, "split", tree, model, "")}
        \cup UNION {draw_from_encoding_uses(
                        leaf_keys(encoded_configuration, key)[f], tree, model, f) :
                    f \in DOMAIN encoded_configuration}

extract_multiple_models_uses(encoded_configuration, key, n_models, tree) ==
    {KeyUse(key, "split", tree, -1, "")}
        \cup UNION {draw_sample_uses(encoded_configuration,
                                     model_keys(key, n_models)[i], tree, i - 1) :
                    i \in 1..n_models}

---------------------------------------------------------------------------
(* The external collaborators: cosmology_utils, los, subhalos,              *)
(* image_simulation and utils.  Each is a deterministic function of its     *)
(* arguments; a result the pipeline only passes on is the record of the     *)
(* call that made it.                                                       *)

add_lookup_tables_to_cosmology_params(params, z_lookup_max, dz, r_min, r_max, n_r_bins) ==
    [params |-> params,
     lookup |-> [z_lookup_max |-> z_lookup_max, dz |-> dz, r_min |-> r_min,
                 r_max |-> r_max, n_r_bins |-> n_r_bins]]

lagrangian_radius(cosmology, mass) ==
    [fn |-> "lagrangian_radius", lookup |-> cosmology.lookup, mass |-> mass]

add_los_lookup_tables_to_cosmology_params(los_params, cosmology, z_max) ==
    [params |-> cosmology.params, lookup |-> cosmology.lookup,
     los_lookup |-> [los_params |-> los_params, z_max |-> z_max]]

draw_los(main_deflector_params, source_params, los_params, cosmology, key) ==
    [fn |-> "draw_los", key |-> key, z_lens |-> main_deflector_params["z_lens"],
     z_source |-> source_params["z_source"], los_params |-> los_params,
     lookup |-> cosmology.lookup]

draw_subhalos(main_deflector_params, source_params, subhalo_params, cosmology, key) ==
    [fn |-> "draw_subhalos", key |-> key,
     z_lens |-> main_deflector_params["z_lens"],
     z_source |-> source_params["z_source"], subhalo_params |-> subhalo_params,
     lookup |-> cosmology.lookup]

RECURSIVE SumOver(_, _)
\* The sum of f[i] over the indices i of set.
SumOver(f, set) ==
    IF set = {} THEN Zero
    ELSE LET i == CHOOSE j \in set : TRUE
         IN  RAdd(f[i], SumOver(f, set \ {i}))

\* The supersampled image: four pixels in a row, each the light of every source
\* and lens light model that falls on it.
generate_image(source_params, lens_light_params, n_pixels) ==
    [j \in 1..n_pixels |->
        RAdd(SumOver([m \in DOMAIN source_params["amp"] |->
                         RMul(source_params["amp"][m], Rat((j + m) % 3, 1))],
                     DOMAIN source_params["amp"]),
             SumOver([m \in DOMAIN lens_light_params["amp"] |->
                         RMul(lens_light_params["amp"][m], Rat((j * m) % 2, 1))],
                     DOMAIN lens_light_params["amp"]))]

\* utils.downsample: the mean of every supersampling_factor pixels.
downsample(image, supersampling_factor) ==
    [i \in 1..(Len(image) \div supersampling_factor) |->
        RDiv(SumOver(image, ((i - 1) * supersampling_factor + 1)
                                ..(i * supersampling_factor)),
             Rat(supersampling_factor, 1))]

RAbs(x) == [n |-> Abs(x.n), d |-> x.d]

\* jnp.std of an image of two pixels: half the distance between them.
std(image) == RDiv(RAbs(RSub(image[1], image[2])), Rat(2, 1))

---------------------------------------------------------------------------
(* The Cosmology Initializer. *)

\* intialize_cosmology_params with the final table spanning the redshifts of the
\* coarse table, up to the maximum source redshift.
intialize_cosmology_params_to_source_z(config, key) ==
    LET lensing_config == config.lensing_config
        max_source_z == decode_maximum(lensing_config["source_params"]["z_source"])
        dz == decode_minimum(lensing_config["los_params"]["dz"])
        m_max == PyMax(decode_maximum(lensing_config["subhalo_params"]["m_max"]),
                       decode_maximum(lensing_config["los_params"]["m_max"]))
        m_min == PyMin(decode_minimum(lensing_config["subhalo_params"]["m_min"]),
                       decode_minimum(lensing_config["los_params"]["m_min"]))
        cosmology_params_init == draw_sample(config.cosmology_params, key)
        coarse == add_lookup_tables_to_cosmology_params(
                      cosmology_params_init, max_source_z, RDiv(dz, Rat(2, 1)),
                      Rat(1, 10000), Rat(1000, 1), 2)
        r_min == lagrangian_radius(coarse, RDiv(m_min, Rat(10, 1)))
        r_max == lagrangian_radius(coarse, RMul(m_max, Rat(10, 1)))
        refined == add_lookup_tables_to_cosmology_params(
                       cosmology_params_init, max_source_z, RDiv(dz, Rat(2, 1)),
                       r_min, r_max, 10000)
        extrenal_los_params == [m_min |-> m_min, m_max |-> m_max, dz |-> dz]
    IN  add_los_lookup_tables_to_cosmology_params(
            extrenal_los_params, refined, max_source_z)

intialize_cosmology_params(config, key) ==
    LET lensing_config == config.lensing_config
        max_source_z == decode_maximum(lensing_config["source_params"]["z_source"])
        dz == decode_minimum(lensing_config["los_params"]["dz"])
        m_max == PyMax(decode_maximum(lensing_config["subhalo_params"]["m_max"]),
                       decode_maximum(lensing_config["los_params"]["m_max"]))
        m_min == PyMin(decode_minimum(lensing_config["subhalo_params"]["m_min"]),
                       decode_minimum(lensing_config["los_params"]["m_min"]))
        cosmology_params_init == draw_sample(config.cosmology_params, key)
        coarse == add_lookup_tables_to_cosmology_params(
                      cosmology_params_init, max_source_z, RDiv(dz, Rat(2, 1)),
                      Rat(1, 10000), Rat(1000, 1), 2)
        r_min == lagrangian_radius(coarse, RDiv(m_min, Rat(10, 1)))
        r_max == lagrangian_radius(coarse, RMul(m_max, Rat(10, 1)))
        refined == add_lookup_tables_to_cosmology_params(
                       cosmology_params_init, Rat(3, 2), RDiv(dz, Rat(2, 1)),
                       r_min, r_max, 10000)
        extrenal_los_params == [m_min |-> m_min, m_max |-> m_max, dz |-> dz]
    IN  add_los_lookup_tables_to_cosmology_params(
            extrenal_los_params, refined, max_source_z)

---------------------------------------------------------------------------
(* The Scene Assembler, draw_image_and_truth, in three steps: the split of  *)
(* its key with the sampling of the parameters, the choice of the principal *)
(* models with the population draws, and the image with the truth values.   *)

NoKey == << >>

NoKeys ==
    [rng_md |-> NoKey, rng_source |-> NoKey, rng_ll |-> NoKey, rng_los |-> NoKey,
     rng_sub |-> NoKey, rng |-> NoKey]

\* The call draw_image_and_truth(lensing_config, cosmology, grid_x, grid_y, key)
\* before its first statement.
NewScene(key, cosmology) ==
    [pc |-> "split", rng |-> key, cosmology_params |-> cosmology, keys |-> NoKeys,
     main_deflector_params |-> << >>, source_params |-> << >>,
     lens_light_params |-> << >>, los_params |-> << >>, subhalo_params |-> << >>,
     all_params |-> << >>, los |-> << >>, subhalos |-> << >>,
     image |-> << >>, truth |-> << >>, used |-> {}]

\* rng_md, rng_source, rng_ll, rng_los, rng_sub, rng = jax.random.split(rng, 6)
SceneSplit(s) ==
    LET k == split(s.rng, 6)
    IN  [s EXCEPT !.pc = "sample",
                  !.keys = [rng_md |-> k[1], rng_source |-> k[2], rng_ll |-> k[3],
                            rng_los |-> k[4], rng_sub |-> k[5], rng |-> k[6]],
                  !.used = @ \cup {KeyUse(s.rng, "split", "draw_image_and_truth",
                                          -1, "")}]

\* The three extract_multiple_models calls and the two draw_sample calls.
SceneSample(s, ic) ==
    LET lensing_config == ic.lensing_config
        n_md == Len(ic.all_models.all_main_deflector_models)
        n_source == Len(ic.all_models.all_source_models)
    IN  [s EXCEPT
            !.pc = "populate",
            !.main_deflector_params =
                extract_multiple_models(lensing_config["main_deflector_params"],
                                        s.keys.rng_md, n_md),
            !.source_params =
                extract_multiple_models(lensing_config["source_params"],
                                        s.keys.rng_source, n_source),
            !.lens_light_params =
                extract_multiple_models(lensing_config["lens_light_params"],
                                        s.keys.rng_ll, n_source),
            !.los_params = draw_sample(lensing_config["los_params"], s.keys.rng_los),
            !.subhalo_params =
                draw_sample(lensing_config["subhalo_params"], s.keys.rng_sub),
            !.used = @
                \cup extract_multiple_models_uses(
                         lensing_config["main_deflector_params"], s.keys.rng_md,
                         n_md, "main_deflector_params")
                \cup extract_multiple_models_uses(
                         lensing_config["source_params"], s.keys.rng_source,
                         n_source, "source_params")
                \cup extract_multiple_models_uses(
                         lensing_config["lens_light_params"], s.keys.rng_ll,
                         n_source, "lens_light_params")
                \cup draw_sample_uses(lensing_config["los_params"], s.keys.rng_los,
                                      "los_params", -1)
                \cup draw_sample_uses(lensing_config["subhalo_params"],
                                      s.keys.rng_sub, "subhalo_params", -1)]

\* principal_params with the lens light chosen by the main deflector's index.
principal_params_by_md_index(main_deflector_params, source_params, lens_light_params, los_params, subhalo_params, ic) ==
    [source_params |-> select_model(source_params, ic.principal_source_index),
     lens_light_params |-> select_model(lens_light_params, ic.principal_md_index),
     los_params |-> los_params,
     subhalo_params |-> subhalo_params,
     main_deflector_params |->
         select_model(main_deflector_params, ic.principal_md_index)]

\* all_params of draw_image_and_truth: the principal entries of the three
\* multi-model draws, and the line-of-sight and subhalo draws.
principal_params(main_deflector_params, source_params, lens_light_params, los_params, subhalo_params, ic) ==
    [source_params |-> select_model(source_params, ic.principal_source_index),
     lens_light_params |->
         select_model(lens_light_params, ic.principal_source_index),
     los_params |-> los_params,
     subhalo_params |-> subhalo_params,
     main_deflector_params |->
         select_model(main_deflector_params, ic.principal_md_index)]

\* The principal models, the second split and the two population draws.
ScenePopulate(s, ic) ==
    LET all_params == principal_params(s.main_deflector_params, s.source_params,
                                       s.lens_light_params, s.los_params,
                                       s.subhalo_params, ic)
        k == split(s.keys.rng, 2)
    IN  [s EXCEPT
            !.pc = "render",
            !.all_params = all_params,
            !.keys = [@ EXCEPT !.rng_los = k[1], !.rng_sub = k[2]],
            !.los = draw_los(all_params.main_deflector_params,
                             all_params.source_params, s.los_params,
                             s.cosmology_params, k[1]),
            !.subhalos = draw_subhalos(all_params.main_deflector_params,
                                       all_params.source_params, s.subhalo_params,
                                       s.cosmology_params, k[2]),
            !.used = @ \cup {KeyUse(s.keys.rng, "split", "draw_image_and_truth",
                                    -1, "rng"),
                             KeyUse(k[1], "draw_los", "draw_los", -1, ""),
                             KeyUse(k[2], "draw_subhalos", "draw_subhalos", -1, "")}]

\* The image, downsampled and divided by its standard deviation, and the truth.
SceneRender(s, ic) ==
    LET factor == ic.kwargs_detector.supersampling_factor
        image_supersampled ==
            generate_image(s.source_params, s.lens_light_params,
                           ic.kwargs_detector.n_x * factor)
        image == downsample(image_supersampled, factor)
    IN  [s EXCEPT
            !.pc = "done",
            !.image = [i \in DOMAIN image |-> RDiv(image[i], std(image))],
            !.truth = extract_truth_values(s.all_params, ic.lensing_config,
                                           ic.truth_parameters)]

SceneStep(s, ic) ==
    CASE s.pc = "split" -> SceneSample(SceneSplit(s), ic)
      [] s.pc = "populate" -> ScenePopulate(s, ic)
      [] s.pc = "render" -> SceneRender(s, ic)

RECURSIVE draw_image_and_truth_from(_, _)
draw_image_and_truth_from(s, ic) ==
    IF s.pc = "done" THEN s ELSE draw_image_and_truth_from(SceneStep(s, ic), ic)

\* One whole call of draw_image_and_truth, run alone from its first statement to
\* its return.
draw_image_and_truth(ic, cosmology, key) ==
    LET s == draw_image_and_truth_from(NewScene(key, cosmology), ic)
    IN  [image |-> s.image, truth |-> s.truth]

\* The draw_sample calls of the sampling step of a scene, as log entries.
SceneDrawCalls(s, ic, call) ==
    LET lensing_config == ic.lensing_config
        n_md == Len(ic.all_models.all_main_deflector_models)
        n_source == Len(ic.all_models.all_source_models)
        Entry(tree, key) ==
            [tree |-> tree, key |-> key, call |-> call,
             result |-> draw_sample(lensing_config[tree], key)]
    IN  {Entry("main_deflector_params", model_keys(s.keys.rng_md, n_md)[i]) :
            i \in 1..n_md}
        \cup {Entry("source_params", model_keys(s.keys.rng_source, n_source)[i]) :
                i \in 1..n_source}
        \cup {Entry("lens_light_params", model_keys(s.keys.rng_ll, n_source)[i]) :
                i \in 1..n_source}
        \cup {Entry("los_params", s.keys.rng_los),
              Entry("subhalo_params", s.keys.rng_sub)}

---------------------------------------------------------------------------
(* The inputs of a run: input_config, train_config and the flags. *)

\* Halo masses are in units of 1e6 solar masses.
LensingConfig(theta_E) ==
    [main_deflector_params |->
         [theta_E |-> theta_E, z_lens |-> encode_constant(Rat(1, 2))],
     source_params |->
         [amp |-> encode_uniform(One, Rat(3, 1)),
          z_source |-> encode_uniform(One, Rat(2, 1))],
     lens_light_params |-> [amp |-> encode_normal(Rat(10, 1), One)],
     los_params |->
         [delta_los |-> encode_uniform(Zero, Rat(2, 1)),
          dz |-> encode_constant(Rat(1, 10)),
          m_max |-> encode_constant(Rat(10000, 1)),
          m_min |-> encode_constant(Rat(10, 1))],
     subhalo_params |->
         [sigma_sub |-> encode_normal(Rat(1, 2), Rat(1, 10)),
          m_max |-> encode_constant(Rat(10000, 1)),
          m_min |-> encode_constant(Rat(70, 1))]]

\* A lensing configuration whose sources and lens have no light.
DarkLensingConfig ==
    [LensingConfig(encode_constant(Rat(11, 10))) EXCEPT
        !.source_params.amp = encode_constant(Zero),
        !.lens_light_params.amp = encode_constant(Zero)]

LensingConfigs ==
    {LensingConfig(theta_E) :
        theta_E \in {encode_uniform(Rat(1, 2), Rat(2, 1)),
                     encode_normal(Rat(11, 10), Rat(1, 10)),
                     encode_constant(Rat(11, 10))}}
        \cup {DarkLensingConfig}

\* truth_parameters: the objects and the keys to extract, two lists of one length.
TruthParameterChoices ==
    {<<<<"main_deflector_params", "source_params", "lens_light_params",
         "subhalo_params", "los_params">>,
       <<"theta_E", "amp", "amp", "sigma_sub", "delta_los">>>>,
     <<<<"subhalo_params", "main_deflector_params", "source_params",
         "main_deflector_params">>,
       <<"sigma_sub", "z_lens", "z_source", "theta_E">>>>}

AllModels ==
    [all_main_deflector_models |-> <<"EPL", "Shear">>,
     all_source_models |-> <<"SersicElliptic", "CosmosCatalog">>]

InputConfigs ==
    {[lensing_config |-> lensing_config,
      cosmology_params |->
          [omega_m_zero |-> encode_uniform(Rat(1, 4), Rat(1, 2)),
           hubble_constant |-> encode_constant(Rat(70, 1))],
      all_models |-> AllModels,
      principal_md_index |-> principal_md_index,
      principal_source_index |-> principal_source_index,
      kwargs_detector |-> [n_x |-> 2, supersampling_factor |-> 2],
      truth_parameters |-> truth_parameters] :
        lensing_config \in LensingConfigs,
        principal_md_index \in
            0..(Len(AllModels.all_main_deflector_models) - 1),
        principal_source_index \in 0..(Len(AllModels.all_source_models) - 1),
        truth_parameters \in TruthParameterChoices}

\* restored_step is the step of the checkpoint found in workdir, 0 without one.
TrainConfigs ==
    [num_train_steps : {NumTrainSteps}, steps_per_epoch : {1, 2},
     batch_size : {BatchSize}, device_count : {1},
     num_unique_batches : 0..MaxUniqueBatches,
     restored_step : 0..(NumTrainSteps + 1), process_index : {0, 1}]

DefaultTrainConfig ==
    [num_train_steps |-> NumTrainSteps, steps_per_epoch |-> 1,
     batch_size |-> BatchSize, device_count |-> 1, num_unique_batches |-> 0,
     restored_step |-> 0, process_index |-> 0]

DefaultInputConfig ==
    CHOOSE ic \in InputConfigs :
        /\ ic.lensing_config =
               LensingConfig(encode_uniform(Rat(1, 2), Rat(2, 1)))
        /\ ic.principal_md_index = 1
        /\ ic.principal_source_index = 0
        /\ ic.truth_parameters[1][1] = "main_deflector_params"

---------------------------------------------------------------------------
(* train.py: main and train_and_evaluate. *)

\* rng of main: PRNGKey(0), or with num_unique_batches > 0 the cycle over its
\* split; pos is the place in the cycle of the key handed out next.
main_rng(num_unique_batches) ==
    IF num_unique_batches > 0
    THEN [iterator |-> TRUE, key |-> NoKey,
          list |-> split(<<0>>, num_unique_batches), pos |-> 0]
    ELSE [iterator |-> FALSE, key |-> <<0>>, list |-> << >>, pos |-> 0]

\* next_key with an iterator that stays on its first key.
next_key_of_stuck_iterator(r) ==
    IF r.iterator
    THEN [rng |-> r, sub |-> r.list[r.pos + 1]]
    ELSE [rng |-> [r EXCEPT !.key = split(r.key, 2)[1]],
          sub |-> split(r.key, 2)[2]]

\* "next(rng)" or "rng, sub = jax.random.split(rng)": the rng left and the key
\* handed out.
next_key(r) ==
    IF r.iterator
    THEN [rng |-> [r EXCEPT !.pos = (r.pos + 1) % Len(r.list)],
          sub |-> r.list[r.pos + 1]]
    ELSE [rng |-> [r EXCEPT !.key = split(r.key, 2)[1]],
          sub |-> split(r.key, 2)[2]]

\* scene_key with the keys not mapped over: every element gets the first key.
scene_key_unmapped(keys, i) == keys[1]

\* The key of batch element i among the pre-split keys of the batch.
scene_key(keys, i) == keys[i]

\* Lines 239-249: the train state is created, a checkpoint restored.
CreateTrainState ==
    /\ tpc = "start"
    /\ LET nk == next_key(rng)
       IN  /\ rng' = nk.rng
           /\ train_state' = [step |-> train_config.restored_step,
                              init_key |-> nk.sub, synced |-> TRUE]
           /\ run_log' = [run_log EXCEPT
                             !.step_offset = train_config.restored_step]
    /\ step' = train_config.restored_step
    /\ tpc' = "cosmology"
    /\ UNCHANGED <<codec, input_config, train_config, cosmology_params,
                   rng_images, scene, batch, draw_log>>

\* Lines 267-273: the cosmology parameters are built.
InitializeCosmology ==
    /\ tpc = "cosmology"
    /\ LET nk == next_key(rng)
       IN  /\ rng' = nk.rng
           /\ cosmology_params' = intialize_cosmology_params(input_config, nk.sub)
           /\ draw_log' = draw_log \cup
                  {[tree |-> "cosmology_params", key |-> nk.sub,
                    call |-> <<-1, 0>>,
                    result |-> draw_sample(input_config.cosmology_params, nk.sub)]}
    /\ run_log' = [run_log EXCEPT !.cosmology_calls = @ + 1,
                                  !.cosmology_key = next_key(rng).sub]
    /\ tpc' = "loop"
    /\ UNCHANGED <<codec, input_config, train_config, train_state, step,
                   rng_images, scene, batch>>

\* StartBatch with the cosmology parameters built again from the key of the step.
StartBatchRebuildingCosmology ==
    /\ tpc = "loop"
    /\ step < train_config.num_train_steps
    /\ LET nk == next_key(rng)
           n == train_config.device_count * train_config.batch_size
           keys == split(nk.sub, n)
           rebuilt == intialize_cosmology_params(input_config, nk.sub)
       IN  /\ rng' = nk.rng
           /\ rng_images' = keys
           /\ cosmology_params' = rebuilt
           /\ scene' = [i \in 1..n |-> NewScene(scene_key(keys, i), rebuilt)]
    /\ run_log' = [run_log EXCEPT !.cosmology_calls = @ + 1,
                                  !.image_keys = Append(@, next_key(rng).sub)]
    /\ tpc' = "draw"
    /\ UNCHANGED <<codec, input_config, train_config, train_state, step,
                   batch, draw_log>>

\* Lines 281-295: a step of the loop starts; the batch's keys are split and every
\* batch element's draw_image_and_truth is called.
StartBatch ==
    /\ tpc = "loop"
    /\ step < train_config.num_train_steps
    /\ LET nk == next_key(rng)
           n == train_config.device_count * train_config.batch_size
           keys == split(nk.sub, n)
       IN  /\ rng' = nk.rng
           /\ rng_images' = keys
           /\ scene' = [i \in 1..n |->
                           NewScene(scene_key(keys, i), cosmology_params)]
    /\ run_log' = [run_log EXCEPT !.image_keys = Append(@, next_key(rng).sub)]
    /\ tpc' = "draw"
    /\ UNCHANGED <<codec, input_config, train_config, train_state, step,
                   cosmology_params, batch, draw_log>>

\* One step of the draw_image_and_truth call of batch element i.
DrawStep(i) ==
    /\ tpc = "draw"
    /\ scene[i].pc # "done"
    /\ scene' = [scene EXCEPT ![i] = SceneStep(scene[i], input_config)]
    /\ draw_log' = IF scene[i].pc = "split"
                   THEN draw_log \cup
                            SceneDrawCalls(SceneSplit(scene[i]), input_config,
                                           <<step, i>>)
                   ELSE draw_log
    /\ UNCHANGED <<codec, input_config, train_config, rng, tpc, train_state,
                   step, cosmology_params, rng_images, batch, run_log>>

\* FinishStep without the checkpoint of the last step of the run.
FinishStepSavingAtEpochEndOnly ==
    /\ tpc = "draw"
    /\ \A i \in DOMAIN scene : scene[i].pc = "done"
    /\ batch' = [image |-> [i \in DOMAIN scene |-> scene[i].image],
                 truth |-> [i \in DOMAIN scene |-> scene[i].truth]]
    /\ LET save == (step + 1) % train_config.steps_per_epoch = 0
           new_state == [train_state EXCEPT !.step = @ + 1, !.synced = save]
       IN  /\ train_state' = new_state
           /\ run_log' =
                  IF save /\ train_config.process_index = 0
                  THEN [run_log EXCEPT
                           !.checkpoints =
                               Append(@, [step |-> new_state.step,
                                          after |-> step,
                                          synced |-> new_state.synced])]
                  ELSE run_log
    /\ step' = step + 1
    /\ tpc' = "loop"
    /\ UNCHANGED <<codec, input_config, train_config, rng, cosmology_params,
                   rng_images, scene, draw_log>>

\* Lines 296-321: the batch is complete; the train step, and the checkpoint at
\* the end of an epoch and of the run.
FinishStep ==
    /\ tpc = "draw"
    /\ \A i \in DOMAIN scene : scene[i].pc = "done"
    /\ batch' = [image |-> [i \in DOMAIN scene |-> scene[i].image],
                 truth |-> [i \in DOMAIN scene |-> scene[i].truth]]
    /\ LET save == \/ (step + 1) % train_config.steps_per_epoch = 0
                   \/ step + 1 = train_config.num_train_steps
           new_state == [train_state EXCEPT !.step = @ + 1, !.synced = save]
       IN  /\ train_state' = new_state
           /\ run_log' =
                  IF save /\ train_config.process_index = 0
                  THEN [run_log EXCEPT
                           !.checkpoints =
                               Append(@, [step |-> new_state.step,
                                          after |-> step,
                                          synced |-> new_state.synced])]
                  ELSE run_log
    /\ step' = step + 1
    /\ tpc' = "loop"
    /\ UNCHANGED <<codec, input_config, train_config, rng, cosmology_params,
                   rng_images, scene, draw_log>>

\* Lines 323-326: the loop has run its steps.
Return ==
    /\ tpc = "loop"
    /\ step >= train_config.num_train_steps
    /\ tpc' = "done"
    /\ UNCHANGED <<codec, input_config, train_config, rng, train_state, step,
                   cosmology_params, rng_images, scene, batch, draw_log, run_log>>

NoRunLog ==
    [step_offset |-> 0, cosmology_calls |-> 0, cosmology_key |-> NoKey,
     image_keys |-> << >>, checkpoints |-> << >>]

NoCosmology == [params |-> << >>, lookup |-> << >>, los_lookup |-> << >>]

\* The runs of the model: the input configurations that differ from one of them
\* in the lensing configuration only, or in the principal indices and the truth
\* parameters only, under one training configuration; and with that input
\* configuration, the training configurations that draw every batch with a key
\* of its own, and those that cycle over pre-split keys from a fresh start.
Runs ==
    {[input_config |-> ic, train_config |-> DefaultTrainConfig] :
        ic \in {c \in InputConfigs :
                   \/ c.lensing_config = DefaultInputConfig.lensing_config
                   \/ /\ c.principal_md_index
                            = DefaultInputConfig.principal_md_index
                      /\ c.principal_source_index
                            = DefaultInputConfig.principal_source_index
                      /\ c.truth_parameters
                            = DefaultInputConfig.truth_parameters}}
    \cup {[input_config |-> DefaultInputConfig, train_config |-> tc] :
            tc \in {c \in TrainConfigs :
                       \/ c.num_unique_batches = 0
                       \/ /\ c.steps_per_epoch = 1
                          /\ c.restored_step = 0
                          /\ c.process_index = 0}}

Init ==
    /\ codec = CodecIdle
    /\ \E run \in Runs : /\ input_config = run.input_config
                         /\ train_config = run.train_config
    /\ rng = main_rng(train_config.num_unique_batches)
    /\ tpc = "start"
    /\ train_state = [step |-> 0, init_key |-> NoKey, synced |-> TRUE]
    /\ step = 0
    /\ cosmology_params = NoCosmology
    /\ rng_images = << >>
    /\ scene = << >>
    /\ batch = [image |-> << >>, truth |-> << >>]
    /\ draw_log = {}
    /\ run_log = NoRunLog

Next ==
    \/ CreateTrainState
    \/ InitializeCosmology
    \/ StartBatch
    \/ \E i \in DOMAIN scene : DrawStep(i)
    \/ FinishStep
    \/ Return

Spec == Init /\ [][Next]_vars

---------------------------------------------------------------------------
(* The codec on its own. *)

InitCodec ==
    /\ codec \in {CodecEncode(call) : call \in EncoderCalls}
    /\ input_config = DefaultInputConfig
    /\ train_config = DefaultTrainConfig
    /\ rng = main_rng(0)
    /\ tpc = "codec"
    /\ train_state = [step |-> 0, init_key |-> NoKey, synced |-> TRUE]
    /\ step = 0
    /\ cosmology_params = NoCosmology
    /\ rng_images = << >>
    /\ scene = << >>
    /\ batch = [image |-> << >>, truth |-> << >>]
    /\ draw_log = {}
    /\ run_log = NoRunLog

NextCodec ==
    \/ CodecDecode
    \/ CodecDraw
    \/ CodecNormalize

SpecCodec == InitCodec /\ [][NextCodec]_vars

---------------------------------------------------------------------------
(* Properties of the Distribution Codec, under SpecCodec. *)

\* C4: for every valid record of uniform or constant kind and every key, the
\* draw lies between decode_minimum and decode_maximum of the record; the draw
\* from a constant record is the constant, whatever the key.
DrawWithinDecodedBounds ==
    codec.has_draw =>
        LET r == codec.made
            lower == decode_minimum(codec.encoding)
            upper == decode_maximum(codec.encoding)
        IN  /\ (r.kind = "uniform" /\ RLeq(r.a, r.b)) =>
                   RLeq(lower, codec.draw) /\ RLeq(codec.draw, upper)
            /\ r.kind = "constant" =>
                   /\ RLeq(lower, codec.draw) /\ RLeq(codec.draw, upper)
                   /\ codec.draw = r.a
                   /\ \A key \in CodecKeys :
                         draw_from_encoding(codec.encoding, key) = r.a

\* A draw from a uniform record that falls strictly inside its range.
DrawInsideUniformRange ==
    /\ codec.has_draw
    /\ codec.made.kind = "uniform"
    /\ RLt(decode_minimum(codec.encoding), codec.draw)
    /\ RLt(codec.draw, decode_maximum(codec.encoding))
    /\ RGt(codec.made.a, Zero)

\* C5: normalize_param gives (value - min) / (max - min) for a uniform record,
\* (value - mean) / std for a normal record and 0 for a constant record; the
\* normalized draw of a uniform record with min < max lies in [0, 1].
NormalizeParamByKind ==
    codec.has_normalized =>
        LET r == codec.made
        IN  /\ r.kind = "uniform" =>
                   codec.normalized =
                       RDiv(RSub(codec.parameter, r.a), RSub(r.b, r.a))
            /\ r.kind = "normal" =>
                   codec.normalized = RDiv(RSub(codec.parameter, r.a), r.b)
            /\ r.kind = "constant" => codec.normalized = Zero
            /\ (r.kind = "uniform" /\ RLt(r.a, r.b) /\ codec.of_draw) =>
                   RLeq(Zero, codec.normalized) /\ RLeq(codec.normalized, One)

\* The draw of a uniform record normalized to a value strictly between 0 and 1.
NormalizedDrawInsideUnitInterval ==
    /\ codec.has_normalized
    /\ codec.of_draw
    /\ codec.made.kind = "uniform"
    /\ RLt(codec.made.a, codec.made.b)
    /\ RLt(Zero, codec.normalized)
    /\ RLt(codec.normalized, One)

\* C6: decode_maximum of an encoder's record is uniform_max, mean + 5 std or the
\* constant, decode_minimum is uniform_min, mean - 5 std or the constant, the
\* two other terms of the sum being zero; for encode_normal(1.0, 0.2) they are
\* 2.0 and 0.0.
DecodeGivesBoundsOfKind ==
    codec.has_decode =>
        LET r == codec.made
            max_terms == decode_maximum_terms(codec.encoding)
            min_terms == decode_minimum_terms(codec.encoding)
            OnlyTerm(terms, k) ==
                \A j \in 1..3 : j # k => terms[j] = Zero
            five == Rat(5, 1)
        IN  /\ r.kind = "uniform" =>
                   /\ codec.maximum = r.b /\ codec.minimum = r.a
                   /\ OnlyTerm(max_terms, 1) /\ OnlyTerm(min_terms, 1)
            /\ r.kind = "normal" =>
                   /\ codec.maximum = RAdd(r.a, RMul(five, r.b))
                   /\ codec.minimum = RSub(r.a, RMul(five, r.b))
                   /\ OnlyTerm(max_terms, 2) /\ OnlyTerm(min_terms, 2)
            /\ r.kind = "constant" =>
                   /\ codec.maximum = r.a /\ codec.minimum = r.a
                   /\ OnlyTerm(max_terms, 3) /\ OnlyTerm(min_terms, 3)
            /\ (r.kind = "normal" /\ r.a = One /\ r.b = Rat(1, 5)) =>
                   codec.maximum = Rat(2, 1) /\ codec.minimum = Zero

\* encode_normal(1.0, 0.2) decoded.
DecodedNormalExample ==
    /\ codec.has_decode
    /\ codec.made = [kind |-> "normal", a |-> One, b |-> Rat(1, 5)]
    /\ codec.maximum = Rat(2, 1)
    /\ codec.minimum = Zero

---------------------------------------------------------------------------
(* Properties of a training run, under Spec. *)

\* The draw_image_and_truth calls that have sampled their parameters.
Sampled == {i \in DOMAIN scene : scene[i].pc \in {"populate", "render", "done"}}

\* The draw_image_and_truth calls that have returned.
Returned == {i \in DOMAIN scene : scene[i].pc = "done"}

RandomDraws == {"uniform", "normal", "draw_los", "draw_subhalos"}

\* C1 as claimed: within one draw_image_and_truth call, no key is passed to two
\* random draws.
EachKeyPassedToOneDraw ==
    \A i \in DOMAIN scene :
        \A e1, e2 \in scene[i].used :
            (e1.key = e2.key /\ e1.by \in RandomDraws /\ e2.by \in RandomDraws)
                => e1 = e2

\* C1, amended: within one draw_image_and_truth call, every key is used at one
\* call site only (one split, one draw_from_encoding call, one population draw);
\* the key of a draw_from_encoding call is passed to two random draws there,
\* jax.random.uniform and jax.random.normal.
EachKeyUsedAtOneCallSite ==
    \A i \in DOMAIN scene :
        \A e1, e2 \in scene[i].used :
            /\ (e1.key = e2.key /\ e1 # e2) =>
                   /\ e1.site = e2.site
                   /\ {e1.by, e2.by} = {"uniform", "normal"}
            /\ e1.by = "uniform" =>
                   [e1 EXCEPT !.by = "normal"] \in scene[i].used

\* A returned draw_image_and_truth call whose population draws, splits and leaf
\* draws have all used their keys.
SceneUsedItsKeys ==
    \E i \in Returned :
        /\ \E e \in scene[i].used : e.by = "draw_subhalos"
        /\ \E e \in scene[i].used : e.by = "uniform" /\ e.site[2] = 1
        /\ Cardinality({e.key : e \in scene[i].used}) >= 20

\* The configuration tree of a logged draw_sample call.
LoggedTree(name) ==
    IF name = "cosmology_params" THEN input_config.cosmology_params
    ELSE input_config.lensing_config[name]

\* C2: two draw_sample calls with the same tree and key return the same tree,
\* whatever was called in between; the result has the shape of the input, each
\* leaf drawn from its encoding with its own child of the key, the children
\* being as many as the leaves.
DrawSampleDeterministic ==
    \A a \in draw_log :
        /\ \A b \in draw_log :
               (a.tree = b.tree /\ a.key = b.key) => a.result = b.result
        /\ LET tree == LoggedTree(a.tree)
               children == split(a.key, Cardinality(DOMAIN tree))
           IN  /\ DOMAIN a.result = DOMAIN tree
               /\ \A f \in DOMAIN tree :
                     a.result[f] = draw_from_encoding(
                                       tree[f], children[LeafIndex(tree, f)])

\* The same tree drawn with the same key in two steps of the training loop.
DrawSampleCalledAgain ==
    \E a, b \in draw_log :
        /\ a.tree = b.tree /\ a.key = b.key
        /\ a.call[1] >= 0 /\ a.call[1] < b.call[1]
        /\ \E f \in DOMAIN a.result : a.result[f] # a.result["m_max"]

MultiModelTrees ==
    <<[tree |-> "main_deflector_params", key |-> "rng_md",
       models |-> "all_main_deflector_models"],
      [tree |-> "source_params", key |-> "rng_source",
       models |-> "all_source_models"],
      [tree |-> "lens_light_params", key |-> "rng_ll",
       models |-> "all_source_models"]>>

\* C3: extract_multiple_models(tree, s, n) holds, for each leaf and each model i,
\* the value draw_sample(tree, split(s, n)[i]) gives the leaf, and a model_index
\* of 0 .. n-1.
ExtractMultipleModelsIsDrawSamplePerModel ==
    \A i \in Sampled : \A t \in DOMAIN MultiModelTrees :
        LET tree == input_config.lensing_config[MultiModelTrees[t].tree]
            key == scene[i].keys[MultiModelTrees[t].key]
            n == Len(input_config.all_models[MultiModelTrees[t].models])
            params == scene[i][MultiModelTrees[t].tree]
        IN  /\ DOMAIN params = DOMAIN tree \cup {"model_index"}
            /\ \A f \in DOMAIN tree :
                  /\ DOMAIN params[f] = 1..n
                  /\ \A m \in 1..n :
                        params[f][m] = draw_sample(tree, split(key, n)[m])[f]
            /\ DOMAIN params["model_index"] = 1..n
            /\ \A m \in 1..n : params["model_index"][m] = m - 1

\* Two models of one extract_multiple_models call drawn to different values.
ModelsDrawnApart ==
    \E i \in Sampled :
        /\ scene[i].source_params["amp"][1] # scene[i].source_params["amp"][2]
        /\ scene[i].main_deflector_params["theta_E"][1]
               # scene[i].main_deflector_params["theta_E"][2]

\* C7: the truth vector has one entry per (object, field) target, the i-th being
\* the i-th target's parameter normalized by the target's encoding.
TruthValuesInTargetOrder ==
    \A i \in Returned :
        LET objects == input_config.truth_parameters[1]
            keys == input_config.truth_parameters[2]
            truth == scene[i].truth
        IN  /\ DOMAIN truth = 1..Len(objects)
            /\ \A j \in 1..Len(objects) :
                  truth[j] = normalize_param(
                                 scene[i].all_params[objects[j]][keys[j]],
                                 input_config.lensing_config[objects[j]][keys[j]])

\* A truth vector of targets that are not given in sorted order, with entries
\* that differ.
TruthOfUnsortedTargets ==
    \E i \in Returned :
        /\ input_config.truth_parameters[1][1] = "subhalo_params"
        /\ Len(scene[i].truth) = 4
        /\ scene[i].truth[1] # scene[i].truth[4]
        /\ scene[i].truth[2] # scene[i].truth[3]

\* The values put in the place of the draws of the models that are not principal.
OtherValues == {Rat(-3, 1), Rat(7, 2)}

\* params with the entry of every model but the one at index replaced by value.
WithOtherModels(params, index, value) ==
    [f \in DOMAIN params |->
        [m \in DOMAIN params[f] |->
            IF m = index + 1 THEN params[f][m] ELSE value]]

\* C8: the truth vector is that of the main deflector entry at
\* principal_md_index, the source and lens light entries at
\* principal_source_index and the los_params and subhalo_params draws: with the
\* draws of the other models replaced by any values, it is the same vector.
TruthOfPrincipalModelsOnly ==
    \A i \in Returned : \A value \in OtherValues :
        extract_truth_values(
            principal_params(
                WithOtherModels(scene[i].main_deflector_params,
                                input_config.principal_md_index, value),
                WithOtherModels(scene[i].source_params,
                                input_config.principal_source_index, value),
                WithOtherModels(scene[i].lens_light_params,
                                input_config.principal_source_index, value),
                scene[i].los_params, scene[i].subhalo_params, input_config),
            input_config.lensing_config, input_config.truth_parameters)
        = scene[i].truth

\* A truth vector with lens light as a target, the principal indices of main
\* deflector and source differing and the lens light models drawn apart.
TruthWithOtherModelsApart ==
    \E i \in Returned :
        /\ input_config.principal_md_index # input_config.principal_source_index
        /\ input_config.truth_parameters[1][3] = "lens_light_params"
        /\ scene[i].lens_light_params["amp"][1]
               # scene[i].lens_light_params["amp"][2]

RECURSIVE AloneUpTo(_, _, _)
\* The state of a draw_image_and_truth call run alone from s up to position pc.
AloneUpTo(s, pc, ic) ==
    IF s.pc = pc THEN s ELSE AloneUpTo(SceneStep(s, ic), pc, ic)

\* C9: under every interleaving of the draws of a batch, each draw is where it
\* would be if it ran alone with its own key of the pre-split keys, and when it
\* returns, its image and truth are those of draw_image_and_truth called alone
\* with that key; the batch given to the train step holds them index for index.
BatchDrawsEqualDrawsAlone ==
    /\ \A i \in DOMAIN scene \ Returned :
          scene[i] = AloneUpTo(NewScene(rng_images[i], cosmology_params),
                               scene[i].pc, input_config)
    /\ \A i \in Returned :
          [image |-> scene[i].image, truth |-> scene[i].truth]
              = draw_image_and_truth(input_config, cosmology_params,
                                     rng_images[i])
    /\ (tpc = "loop" /\ DOMAIN scene # {}) =>
           \A i \in DOMAIN scene :
               [image |-> batch.image[i], truth |-> batch.truth[i]]
                   = draw_image_and_truth(input_config, cosmology_params,
                                          rng_images[i])

\* A batch whose draws have all returned, no two with the same truth, one of
\* them having returned before the other took its first step.
BatchDrawnApart ==
    /\ tpc = "loop"
    /\ Cardinality(DOMAIN scene) >= 2
    /\ \A i, j \in DOMAIN scene : i # j => batch.truth[i] # batch.truth[j]
    /\ \A i, j \in DOMAIN scene : i # j => batch.image[i] # batch.image[j]

\* C10: intialize_cosmology_params is called once in a run, before the first
\* draw_image_and_truth call; from then on cosmology_params is the value that
\* call returned, and it is the value every draw_image_and_truth call is given.
CosmologyBuiltOnce ==
    /\ run_log.cosmology_calls <= 1
    /\ tpc \in {"start", "cosmology"} =>
           run_log.cosmology_calls = 0 /\ DOMAIN scene = {}
    /\ tpc \in {"loop", "draw", "done"} =>
           /\ run_log.cosmology_calls = 1
           /\ cosmology_params = intialize_cosmology_params(
                                     input_config, run_log.cosmology_key)
           /\ \A i \in DOMAIN scene :
                 scene[i].cosmology_params = cosmology_params

\* The second batch of a run drawn with the cosmology parameters built before
\* the first.
SecondBatchDrawn ==
    /\ tpc = "draw"
    /\ step = 1
    /\ run_log.step_offset = 0
    /\ Returned = DOMAIN scene
    /\ cosmology_params.lookup.n_r_bins = 10000

---------------------------------------------------------------------------
(* Error handling of the Distribution Codec, under SpecCodec. *)

\* A record with the uniform and the normal flag both set, or a uniform record
\* with uniform_min > uniform_max.
Malformed(encoding) ==
    \/ RGt(E(encoding, 0), Zero) /\ RGt(E(encoding, 3), Zero)
    \/ RGt(E(encoding, 0), Zero) /\ RGt(E(encoding, 1), E(encoding, 2))

\* C11: a malformed record is rejected before any sampling: decode_maximum,
\* decode_minimum, draw_from_encoding and normalize_param return no value for it.
MalformedRecordGivesNoValue ==
    Malformed(codec.encoding) =>
        ~(codec.has_decode \/ codec.has_draw \/ codec.has_normalized)

\* C12: normalize_param returns no infinite and no NaN value; for a uniform
\* record with max = min and for a normal record with std = 0 it returns none.
NormalizedValueIsFinite ==
    codec.has_normalized =>
        /\ IsFinite(codec.normalized)
        /\ ~(codec.made.kind = "uniform" /\ codec.made.a = codec.made.b)
        /\ ~(codec.made.kind = "normal" /\ codec.made.b = Zero)

---------------------------------------------------------------------------
(* Error handling of a training run, under Spec. *)

\* The image of a draw_image_and_truth call before the division by its standard
\* deviation.
DownsampledImage(s, ic) ==
    downsample(generate_image(s.source_params, s.lens_light_params,
                              ic.kwargs_detector.n_x
                                  * ic.kwargs_detector.supersampling_factor),
               ic.kwargs_detector.supersampling_factor)

\* C13: no draw_image_and_truth call returns an image that was divided by a
\* standard deviation of zero.
NoImageDividedByZeroStd ==
    \A i \in Returned :
        std(DownsampledImage(scene[i], input_config)) # Zero

---------------------------------------------------------------------------
(* The schedule of a training run, under Spec. *)

\* C14: with num_unique_batches = N > 0 the keys of the image batches of
\* successive steps repeat with period N and take N values within a period;
\* with num_unique_batches = 0 no two steps have the same key.
ImageKeysCycleOverUniqueBatches ==
    LET keys == run_log.image_keys
        N == train_config.num_unique_batches
    IN  /\ Len(keys) = step - run_log.step_offset + (IF tpc = "draw" THEN 1 ELSE 0)
        /\ N > 0 =>
               /\ \A j, k \in DOMAIN keys :
                     (keys[j] = keys[k]) <=> (j % N = k % N)
               /\ Cardinality({keys[j] : j \in DOMAIN keys}) <= N
        /\ N = 0 =>
               \A j, k \in DOMAIN keys : j # k => keys[j] # keys[k]

\* A run with two unique batches in its third step: the key of the first step
\* again, and not that of the second.
ThirdBatchIsTheFirstAgain ==
    /\ train_config.num_unique_batches = 2
    /\ Len(run_log.image_keys) = 3
    /\ run_log.image_keys[3] = run_log.image_keys[1]
    /\ run_log.image_keys[2] # run_log.image_keys[1]
    /\ rng_images = split(run_log.image_keys[1], Len(rng_images))

---------------------------------------------------------------------------
(* The Cosmology Initializer's two passes, under Spec. *)

\* The cosmology parameters have been built.
CosmologyBuilt == tpc \in {"loop", "draw", "done"}

\* The declared halo masses of a lensing configuration: the smaller of the two
\* minima and the larger of the two maxima.
DeclaredMasses(lensing_config) ==
    LET sub_min == decode_minimum(lensing_config.subhalo_params.m_min)
        los_min == decode_minimum(lensing_config.los_params.m_min)
        sub_max == decode_maximum(lensing_config.subhalo_params.m_max)
        los_max == decode_maximum(lensing_config.los_params.m_max)
    IN  [m_min |-> IF RLeq(sub_min, los_min) THEN sub_min ELSE los_min,
         m_max |-> IF RLeq(sub_max, los_max) THEN los_max ELSE sub_max]

\* C15: the refined table's radius bounds are the Lagrangian radii queried at
\* m_min / 10 and m_max * 10 with the cosmology of the coarse table; for the
\* declared range [1e7, 1e10] solar masses the queries are at 1e6 and 1e11 (1
\* and 100000 in units of 1e6 solar masses).
LagrangianRadiusQueriedWithMargin ==
    CosmologyBuilt =>
        LET declared == DeclaredMasses(input_config.lensing_config)
            r_min == cosmology_params.lookup.r_min
            r_max == cosmology_params.lookup.r_max
        IN  /\ r_min.fn = "lagrangian_radius" /\ r_max.fn = "lagrangian_radius"
            /\ r_min.mass = RDiv(declared.m_min, Rat(10, 1))
            /\ r_max.mass = RMul(declared.m_max, Rat(10, 1))
            /\ r_min.lookup.n_r_bins = 2 /\ r_max.lookup.n_r_bins = 2
            /\ cosmology_params.lookup.n_r_bins = 10000
            /\ (declared.m_min = Rat(10, 1) /\ declared.m_max = Rat(10000, 1)) =>
                   r_min.mass = One /\ r_max.mass = Rat(100000, 1)

\* The cosmology built for a declared range of [1e7, 1e10] solar masses, the
\* subhalo minimum of 7e7 being the larger of the two minima.
RadiusQueriedForDeclaredRange ==
    /\ CosmologyBuilt
    /\ decode_minimum(input_config.lensing_config.subhalo_params.m_min)
           = Rat(70, 1)
    /\ cosmology_params.lookup.r_min.mass = One
    /\ cosmology_params.lookup.r_max.mass = Rat(100000, 1)

\* The lookup tables of a run: the coarse one, which the radius queries hold,
\* and the final one, with the given redshift step.
LookupTablesAre(final_dz) ==
    LET lensing_config == input_config.lensing_config
        dz == decode_minimum(lensing_config.los_params.dz)
        coarse == [z_lookup_max |->
                       decode_maximum(lensing_config.source_params.z_source),
                   dz |-> RDiv(dz, Rat(2, 1)), r_min |-> Rat(1, 10000),
                   r_max |-> Rat(1000, 1), n_r_bins |-> 2]
        final == cosmology_params.lookup
    IN  /\ final.r_min.lookup = coarse /\ final.r_max.lookup = coarse
        /\ final.z_lookup_max = Rat(3, 2)
        /\ final.dz = final_dz
        /\ final.n_r_bins = 10000

\* C16 as claimed: the final table is built at the declared step dz.
FinalTableAtDeclaredStep ==
    CosmologyBuilt =>
        LookupTablesAre(
            decode_minimum(input_config.lensing_config.los_params.dz))

\* C16, amended: the final table spans redshift [0, 1.5] at half the declared
\* step dz, as the coarse table does, over the radius bounds of the coarse pass
\* with 10000 points; the coarse table has the placeholder bounds 1e-4 and 1e3
\* and 2 points up to the maximum source redshift.
FinalTableAtHalfDeclaredStep ==
    CosmologyBuilt =>
        LookupTablesAre(
            RDiv(decode_minimum(input_config.lensing_config.los_params.dz),
                 Rat(2, 1)))

\* The tables built for a declared step of 0.1 and a maximum source redshift of
\* 2: both at a step of 0.05.
TablesBuiltAtHalfStep ==
    /\ CosmologyBuilt
    /\ cosmology_params.lookup.dz = Rat(1, 20)
    /\ cosmology_params.lookup.r_min.lookup.dz = Rat(1, 20)
    /\ cosmology_params.lookup.r_min.lookup.z_lookup_max = Rat(2, 1)
    /\ cosmology_params.los_lookup.los_params.dz = Rat(1, 10)

\* The steps of the loop after which a checkpoint is due.
SaveDue(s) ==
    \/ (s + 1) % train_config.steps_per_epoch = 0
    \/ s + 1 = train_config.num_train_steps

\* C17: the loop runs the steps step_offset .. num_steps - 1 in order; the
\* checkpoints written so far are, in order, those of the completed steps s with
\* (s + 1) % steps_per_epoch = 0 or s + 1 = num_steps, each of the synced state
\* under the step number s + 1, the state's step counter; only process 0 writes.
\* A run that executed a step ends with the checkpoint of step num_steps, and a
\* run with step_offset >= num_steps executes no step and writes none.
CheckpointsFollowSchedule ==
    LET offset == run_log.step_offset
        num_steps == train_config.num_train_steps
        saved == run_log.checkpoints
        completed == {s \in offset..(step - 1) : SaveDue(s)}
        Started == tpc \notin {"start"}
    IN  Started =>
        /\ train_state.step = step
        /\ offset < num_steps => step \in offset..num_steps
        /\ offset >= num_steps => step = offset /\ tpc # "draw" /\ saved = << >>
        /\ Len(run_log.image_keys)
               = step - offset + (IF tpc = "draw" THEN 1 ELSE 0)
        /\ train_config.process_index # 0 => saved = << >>
        /\ train_config.process_index = 0 =>
               /\ Len(saved) = Cardinality(completed)
               /\ \A i \in DOMAIN saved :
                     /\ saved[i].after \in completed
                     /\ saved[i].step = saved[i].after + 1
                     /\ saved[i].synced
                     /\ \A j \in DOMAIN saved :
                           i < j => saved[i].after < saved[j].after
               /\ (tpc = "done" /\ offset < num_steps) =>
                      saved[Len(saved)].step = num_steps

\* A finished run whose last step does not end an epoch: the checkpoints of the
\* end of the epoch and of the end of the run.
RunSavedAtEpochEndAndAtLastStep ==
    /\ tpc = "done"
    /\ train_config.num_train_steps % train_config.steps_per_epoch # 0
    /\ Len(run_log.checkpoints) = 2
    /\ run_log.checkpoints[1].step = train_config.steps_per_epoch
    /\ run_log.checkpoints[2].step = train_config.num_train_steps

=============================================================================
